---- MODULE Spec2Model ----
(***************************************************************************)
(* Model of package bitmask (src/bitmask/bitmask.go): Encode, Decode,      *)
(* HasBit and ToggleBit over Go's int.                                     *)
(*                                                                         *)
(* Go's int is a W = 64 bit two's complement integer.  TLC's own integers  *)
(* are 32 bits wide, so an int is modelled by its bit pattern: a function  *)
(* from bit position 0..W-1 (0 = least significant, W-1 = sign bit) to     *)
(* {0,1}.  The operators |, &, ^, << and >> are defined on that pattern    *)
(* exactly as the Go language defines them on int.                         *)
(***************************************************************************)
EXTENDS Integers, Sequences, FiniteSets

VARIABLES
    pc,          \* "idle": no call in progress; "loop": inside Decode's for loop; "panic": run-time panic
    op,          \* the latest call: "none", "Encode", "Decode", "HasBit", "ToggleBit", "ToggleBitAgain"
    from_encode, \* TRUE when the Decode in progress was given the result of the latest Encode
    in_ids,      \* argument ids of the latest Encode
    in_mask,     \* argument mask of the latest Decode / HasBit / ToggleBit
    in_id,       \* argument id of the latest HasBit / ToggleBit
    ret_mask,    \* value returned by the latest Encode / ToggleBit
    ret_bool,    \* value returned by the latest HasBit
    mask,        \* Decode's local copy of its parameter mask
    bit,         \* Decode's loop variable bit
    ids          \* Decode's local slice ids (its return value once the loop exits)

vars == <<pc, op, from_encode, in_ids, in_mask, in_id, ret_mask, ret_bool, mask, bit, ids>>

----------------------------------------------------------------------------
(* Go's int *)

\* width of int on the 64-bit platforms the tests need (1 << 31 is an int there)
W == 64

Pos == 0 .. (W - 1)

GoInt == [Pos -> {0, 1}]

\* the int 0
Zero == [i \in Pos |-> 0]

\* the constant 1 of "1 << id" and "mask&1"
One == [i \in Pos |-> IF i = 0 THEN 1 ELSE 0]

\* x | y
Or(x, y) == [i \in Pos |-> IF x[i] = 1 \/ y[i] = 1 THEN 1 ELSE 0]

\* x & y
And(x, y) == [i \in Pos |-> IF x[i] = 1 /\ y[i] = 1 THEN 1 ELSE 0]

\* x ^ y
Xor(x, y) == [i \in Pos |-> IF x[i] # y[i] THEN 1 ELSE 0]

\* ^x (bitwise complement), used to build negative inputs
Not(x) == [i \in Pos |-> 1 - x[i]]

\* a shift by a negative count panics at run time
ShiftPanics(n) == n < 0

\* faulty variant of Shl: the count is taken modulo the width, the bits rotate
ShlWrap(x, n) == [i \in Pos |-> x[(i - (n % W)) % W]]
\* x << n for n >= 0: bits shifted out at the top are lost, zeros enter at
\* the bottom; a count of W or more leaves 0
Shl(x, n) == [i \in Pos |-> IF i >= n THEN x[i - n] ELSE 0]

\* x >> 1 on a signed int: arithmetic shift, the sign bit is replicated
Sar(x) == [i \in Pos |-> IF i = W - 1 THEN x[W - 1] ELSE x[i + 1]]

\* the set of positions whose bit is 1
Bits(x) == {i \in Pos : x[i] = 1}

\* the int whose set bits are exactly the positions in S
VecOf(S) == [i \in Pos |-> IF i \in S THEN 1 ELSE 0]

\* x < 0
IsNeg(x) == x[W - 1] = 1

RECURSIVE NatBits(_, _)
NatBits(n, i) == IF n = 0 THEN {} ELSE (IF n % 2 = 1 THEN {i} ELSE {}) \cup NatBits(n \div 2, i + 1)

\* the int with value n, for the n TLC can write
FromInt(n) == IF n >= 0 THEN VecOf(NatBits(n, 0)) ELSE Not(VecOf(NatBits(-n - 1, 0)))

----------------------------------------------------------------------------
(* sequences *)

Range(s) == {s[i] : i \in 1 .. Len(s)}

Min(S) == CHOOSE x \in S : \A y \in S : x <= y

RECURSIVE Ascending(_)
\* the elements of S as a strictly increasing sequence
Ascending(S) == IF S = {} THEN <<>> ELSE <<Min(S)>> \o Ascending(S \ {Min(S)})

\* the ascending-sorted, deduplicated form of s
SortedDedup(s) == Ascending(Range(s))

IsPrefix(s, t) == Len(s) <= Len(t) /\ \A i \in 1 .. Len(s) : s[i] = t[i]

StrictlyIncreasing(s) == \A i \in 1 .. Len(s) - 1 : s[i] < s[i + 1]

----------------------------------------------------------------------------
(* the four functions *)

\* faulty variant of EncodeFrom: mask ^= 1 << id
RECURSIVE EncodeFromXor(_, _)
EncodeFromXor(m, s) ==
    IF s = <<>> THEN m ELSE EncodeFromXor(Xor(m, Shl(One, Head(s))), Tail(s))

\* faulty variant of EncodeFrom: mask = 1 << id
RECURSIVE EncodeFromAssign(_, _)
EncodeFromAssign(m, s) ==
    IF s = <<>> THEN m ELSE EncodeFromAssign(Shl(One, Head(s)), Tail(s))

RECURSIVE EncodeFrom(_, _)
\* the for-range loop of Encode: mask |= 1 << id, left to right
EncodeFrom(m, s) ==
    IF s = <<>> THEN m ELSE EncodeFrom(Or(m, Shl(One, Head(s))), Tail(s))

\* Encode panics at the first negative id it reaches
EncodePanics(s) == \E i \in 1 .. Len(s) : ShiftPanics(s[i])

\* Encode(ids), for ids on which it does not panic: var mask int; loop; return mask
Encode(s) == EncodeFrom(Zero, s)

\* faulty variant of HasBit: (mask & (1 << id)) == 1
HasBitEqOne(m, id) == And(m, Shl(One, id)) = One
\* HasBit(mask, id), for id >= 0
HasBit(m, id) == And(m, Shl(One, id)) # Zero

\* faulty variants of ToggleBit: mask | (1 << id), mask &^ (1 << id), mask ^ id
ToggleBitOr(m, id) == Or(m, Shl(One, id))
ToggleBitClear(m, id) == And(m, Not(Shl(One, id)))
ToggleBitNoShift(m, id) == Xor(m, FromInt(id))
\* ToggleBit(mask, id), for id >= 0
ToggleBit(m, id) == Xor(m, Shl(One, id))

----------------------------------------------------------------------------
(* inputs *)

\* the low identifiers tried are 0 .. MaxId
MaxId == 5

\* Encode is called with at most MaxLen identifiers
MaxLen == 3

\* Decode's loop is followed for MaxExtra iterations past the width
MaxExtra == 2

LowIds == 0 .. MaxId

\* identifiers given to HasBit and ToggleBit: in range (with both ends of the
\* range), past the width, and negative
IdInputs == LowIds \cup {W - 2, W - 1, W, W + 1, -1}

\* identifiers given to Encode
EncodeIds == LowIds \cup {W - 1, W, -1}

EncodeInputs == UNION {[1 .. n -> EncodeIds] : n \in 0 .. MaxLen}

\* masks given to Decode, HasBit and ToggleBit: non-negative ones, ones with
\* the sign bit set, and complements of small ones (-1, -2, ...)
MaskInputs ==
    {VecOf(S) : S \in SUBSET (LowIds \cup {W - 2, W - 1})}
        \cup {Not(VecOf(S)) : S \in SUBSET LowIds}

----------------------------------------------------------------------------
(* the calls.  The functions keep no state between calls, so a run makes  *)
(* one call from the initial state, or Decode on the result of an Encode. *)

\* no call has been made yet
Fresh == pc = "idle" /\ op = "none"

Init ==
    /\ pc = "idle"
    /\ op = "none"
    /\ from_encode = FALSE
    /\ in_ids = <<>>
    /\ in_mask = Zero
    /\ in_id = 0
    /\ ret_mask = Zero
    /\ ret_bool = FALSE
    /\ mask = Zero
    /\ bit = 0
    /\ ids = <<>>

\* Encode(s), for any input s
CallEncode ==
    /\ Fresh
    /\ \E s \in EncodeInputs :
        /\ op' = "Encode"
        /\ in_ids' = s
        /\ IF EncodePanics(s)
           THEN pc' = "panic" /\ ret_mask' = Zero
           ELSE pc' = "idle" /\ ret_mask' = Encode(s)
        /\ from_encode' = FALSE
        /\ in_mask' = Zero
        /\ in_id' = 0
        /\ ret_bool' = FALSE
        /\ mask' = Zero
        /\ bit' = 0
        /\ ids' = <<>>

\* HasBit(m, id), for any inputs m and id
CallHasBit ==
    /\ Fresh
    /\ \E m \in MaskInputs, id \in IdInputs :
        /\ op' = "HasBit"
        /\ in_mask' = m
        /\ in_id' = id
        /\ IF ShiftPanics(id)
           THEN pc' = "panic" /\ ret_bool' = FALSE
           ELSE pc' = "idle" /\ ret_bool' = HasBit(m, id)
        /\ from_encode' = FALSE
        /\ in_ids' = <<>>
        /\ ret_mask' = Zero
        /\ mask' = Zero
        /\ bit' = 0
        /\ ids' = <<>>

\* ToggleBit(m, id), for any inputs m and id
CallToggleBit ==
    /\ Fresh
    /\ \E m \in MaskInputs, id \in IdInputs :
        /\ op' = "ToggleBit"
        /\ in_mask' = m
        /\ in_id' = id
        /\ IF ShiftPanics(id)
           THEN pc' = "panic" /\ ret_mask' = Zero
           ELSE pc' = "idle" /\ ret_mask' = ToggleBit(m, id)
        /\ from_encode' = FALSE
        /\ in_ids' = <<>>
        /\ ret_bool' = FALSE
        /\ mask' = Zero
        /\ bit' = 0
        /\ ids' = <<>>

\* ToggleBit(ToggleBit(m, id), id): ToggleBit again, on the mask the latest
\* ToggleBit returned and with the same id
CallToggleBitAgain ==
    /\ pc = "idle"
    /\ op = "ToggleBit"
    /\ op' = "ToggleBitAgain"
    /\ ret_mask' = ToggleBit(ret_mask, in_id)
    /\ UNCHANGED <<pc, from_encode, in_ids, in_mask, in_id, ret_bool, mask, bit, ids>>

\* entry of Decode(m): ids := make([]int, 0); bit := 0
DecodeEnter(m, chained) ==
    /\ op' = "Decode"
    /\ pc' = "loop"
    /\ from_encode' = chained
    /\ in_mask' = m
    /\ mask' = m
    /\ bit' = 0
    /\ ids' = <<>>
    /\ in_id' = 0
    /\ ret_mask' = Zero
    /\ ret_bool' = FALSE

\* Decode(m) on a mask of the caller's choosing
CallDecode ==
    /\ Fresh
    /\ \E m \in MaskInputs :
        /\ DecodeEnter(m, FALSE)
        /\ in_ids' = <<>>

\* Decode(Encode(in_ids)): Decode on the value the latest Encode returned
CallDecodeOfEncode ==
    /\ pc = "idle"
    /\ op = "Encode"
    /\ DecodeEnter(ret_mask, TRUE)
    /\ UNCHANGED in_ids

\* one iteration of Decode's loop: the condition mask != 0 holds; the body
\* appends bit when mask&1 == 1 and shifts mask right; the post statement
\* increments bit
DecodeStep ==
    /\ pc = "loop"
    /\ mask # Zero
    /\ bit < W + MaxExtra
    /\ ids' = IF And(mask, One) = One THEN Append(ids, bit) ELSE ids
    /\ mask' = Sar(mask)
    /\ bit' = bit + 1
    /\ UNCHANGED <<pc, op, from_encode, in_ids, in_mask, in_id, ret_mask, ret_bool>>

\* the loop condition mask != 0 fails: return ids
DecodeReturn ==
    /\ pc = "loop"
    /\ mask = Zero
    /\ pc' = "idle"
    /\ UNCHANGED <<op, from_encode, in_ids, in_mask, in_id, ret_mask, ret_bool, mask, bit, ids>>

Next ==
    \/ CallEncode
    \/ CallHasBit
    \/ CallToggleBit
    \/ CallToggleBitAgain
    \/ CallDecode
    \/ CallDecodeOfEncode
    \/ DecodeStep
    \/ DecodeReturn

Spec == Init /\ [][Next]_vars

----------------------------------------------------------------------------
TypeOK ==
    /\ pc \in {"idle", "loop", "panic"}
    /\ op \in {"none", "Encode", "Decode", "HasBit", "ToggleBit", "ToggleBitAgain"}
    /\ in_mask \in GoInt /\ ret_mask \in GoInt /\ mask \in GoInt
    /\ bit \in 0 .. (W + MaxExtra)

\* Decode has returned
Returned == op = "Decode" /\ pc = "idle"

\* Decode is inside its loop
Looping == op = "Decode" /\ pc = "loop"

InRange(s) == \A i \in 1 .. Len(s) : s[i] \in Pos

\* the loop cannot leave this state: the condition mask != 0 holds and the
\* body leaves mask as it is
Stuck == mask # Zero /\ Sar(mask) = mask

Reverse(s) == [i \in 1 .. Len(s) |-> s[Len(s) + 1 - i]]

----------------------------------------------------------------------------
(* the claims *)

\* C1: round trip.  For every sequence S of identifiers in [0, W-1],
\* Decode(Encode(S)) returns the ascending-sorted, deduplicated form of S:
\* the scan of Encode(S) can always go on to its exit, what it has collected
\* so far is a prefix of that form, and what it returns is that form.
C1_RoundTrip ==
    (op = "Decode" /\ from_encode /\ InRange(in_ids)) =>
        /\ pc = "loop" => ~Stuck /\ IsPrefix(ids, SortedDedup(in_ids))
        /\ pc = "idle" => ids = SortedDedup(in_ids)

\* C2: Decode terminates for every mask, negative ones included: the scan
\* never reaches a state its loop cannot leave, it makes at most W iterations,
\* and the sequence returned holds every set bit position.
C2_DecodeTerminates ==
    /\ Looping => ~Stuck /\ bit <= W
    /\ Returned => Bits(in_mask) \subseteq Range(ids)

\* C3: for every mask, Decode(mask) is strictly increasing and its elements
\* are exactly the positions of the 1 bits of mask; it is empty for mask 0.
\* Decode only appends, so the same holds of what it has collected so far,
\* up to the position scanned.
C3_DecodeSetBits ==
    op = "Decode" =>
        /\ StrictlyIncreasing(ids)
        /\ Range(ids) = {i \in Bits(in_mask) : i < bit}
        /\ pc = "idle" => Range(ids) = Bits(in_mask)
        /\ (pc = "idle" /\ in_mask = Zero) => ids = <<>>

\* C4: for every sequence ids of identifiers in [0, W-1], Encode(ids) returns
\* the int whose bit i is 1 exactly when i occurs in ids; Encode of the empty
\* sequence is 0.
C4_EncodeBits ==
    (op = "Encode" /\ InRange(in_ids)) =>
        /\ pc = "idle"
        /\ \A i \in Pos : ret_mask[i] = 1 <=> i \in Range(in_ids)
        /\ in_ids = <<>> => ret_mask = Zero

C4_Witness ==
    /\ op = "Encode" /\ pc = "idle"
    /\ in_ids = <<1, 3, 5>>
    /\ ret_mask = FromInt(42)

\* C5: Encode depends only on the set of identifiers in its input: the call
\* gives what Encode gives on the sorted, deduplicated input and on the
\* reversed input (the same mask, or a panic in each case).
C5_EncodeSetOnly ==
    op = "Encode" =>
        /\ pc = "panic" <=> EncodePanics(SortedDedup(in_ids))
        /\ pc = "idle" =>
            /\ ret_mask = Encode(SortedDedup(in_ids))
            /\ ret_mask = Encode(Reverse(in_ids))

C5_Witness ==
    /\ op = "Encode" /\ pc = "idle"
    /\ in_ids = <<1, 1, 3>>
    /\ ret_mask = FromInt(10)

\* C6: bit independence.  For every mask m of any sign and every id in
\* [0, W-1], HasBit(ToggleBit(m, id), id) = NOT HasBit(m, id).
C6_ToggleFlipsBit ==
    (op = "ToggleBit" /\ pc = "idle" /\ in_id \in Pos) =>
        HasBit(ret_mask, in_id) = ~HasBit(in_mask, in_id)

C6_Witness ==
    /\ op = "ToggleBit" /\ pc = "idle"
    /\ in_id = W - 1
    /\ IsNeg(in_mask) /\ ~IsNeg(ret_mask)
    /\ HasBit(in_mask, in_id) /\ ~HasBit(ret_mask, in_id)

\* C7: toggle involution.  ToggleBit(ToggleBit(m, id), id) = m for every
\* mask m and every id on which ToggleBit returns.
C7_ToggleInvolution ==
    (op = "ToggleBitAgain" /\ pc = "idle") => ret_mask = in_mask

C7_Witness ==
    /\ op = "ToggleBitAgain" /\ pc = "idle"
    /\ in_id = 2
    /\ in_mask = FromInt(4)
    /\ ret_mask = FromInt(4)

\* C8: unrelated-bit preservation.  For every mask m and id1 # id2 in
\* [0, W-1], HasBit(ToggleBit(m, id1), id2) = HasBit(m, id2): ToggleBit
\* changes bit id1 and leaves every other bit as it was.
C8_ToggleFrame ==
    (op = "ToggleBit" /\ pc = "idle" /\ in_id \in Pos) =>
        /\ ret_mask[in_id] # in_mask[in_id]
        /\ \A id2 \in Pos \ {in_id} :
            /\ HasBit(ret_mask, id2) = HasBit(in_mask, id2)
            /\ ret_mask[id2] = in_mask[id2]

C8_Witness ==
    /\ op = "ToggleBit" /\ pc = "idle"
    /\ in_id = 3
    /\ in_mask = FromInt(2)
    /\ ret_mask = FromInt(10)

\* C9: no range validation.  For id >= W the shifted operand is 0: HasBit
\* returns false, ToggleBit returns its mask unchanged and Encode returns what
\* it returns without that id.  For id < 0 the call panics.  No call ends in
\* any other way (there is no validation error).
C9_OutOfRangeIds ==
    /\ pc \in {"idle", "loop", "panic"}
    /\ op = "HasBit" =>
        /\ pc = "panic" <=> in_id < 0
        /\ in_id >= W => ret_bool = FALSE
    /\ op = "ToggleBit" =>
        /\ pc = "panic" <=> in_id < 0
        /\ in_id >= W => ret_mask = in_mask
    /\ op = "Encode" =>
        /\ pc = "panic" <=> \E i \in 1 .. Len(in_ids) : in_ids[i] < 0
        /\ pc = "idle" => ret_mask = Encode(SelectSeq(in_ids, LAMBDA id : id < W))

C9_Witness ==
    /\ op = "Encode" /\ pc = "idle"
    /\ in_ids = <<1, W, 3>>
    /\ ret_mask = FromInt(10)

\* C10: the point query agrees with the full decode.  Whenever Decode(m)
\* returns, HasBit(m, id) holds exactly for the ids in [0, W-1] that are in
\* the sequence returned; and HasBit(Encode(ids), id) holds exactly for the
\* ids in [0, W-1] that occur in ids.
C10_HasBitAgreesWithDecode ==
    /\ Returned => \A id \in Pos : HasBit(in_mask, id) <=> id \in Range(ids)
    /\ (op = "Encode" /\ pc = "idle") =>
        \A id \in Pos : HasBit(ret_mask, id) <=> id \in Range(in_ids)

C10_Witness ==
    /\ Returned
    /\ in_mask = FromInt(42)
    /\ ids = <<1, 3, 5>>
    /\ HasBit(in_mask, 3) /\ ~HasBit(in_mask, 2)

====
